---- MODULE Spec2Model ----
(***************************************************************************)
(* Perl 6 language server: the stderr-to-diagnostics extractor and the     *)
(* validation run around it.  Two copies of the server exist in the        *)
(* repository: src/server/src/server.ts ("server") and the copy embedded   *)
(* in src/client/package.json ("client").  They share parseErrorMessage,   *)
(* parse_undeclared and parse_missing_libs and differ in the generic       *)
(* extractor (a while loop without fallback in the server copy, a single   *)
(* match with a whole-text fallback in the client copy) and in checkExec,  *)
(* which only the client copy has.                                         *)
(*                                                                         *)
(* Texts are sequences of one-character strings, so that the regular       *)
(* expressions of the source are matched character by character.           *)
(***************************************************************************)
EXTENDS Integers, Sequences, FiniteSets, TLC

VARIABLES
    variant,        \* which copy of the server runs: "server" or "client"
    msg,            \* parser: the stderr text handed to parseErrorMessage
    pc,             \* parser: "start", "generics" (inside the while loop), "done"
    text,           \* parser: parse_generics' local `text`
    diagnostics,    \* parser: the diagnostics array being filled
    installed,      \* run: the commands the shell can execute
    documents,      \* run: uri -> current content of the open document (or NotOpen)
    runs,           \* run: the validation runs started so far, in start order
    files,          \* run: the temp files that exist
    sink,           \* run: uri -> the batch the client shows (NoBatch: none yet)
    warnings,       \* run: texts shown with connection.window.showErrorMessage
    checks,         \* run: callbacks of `perl6 -v` (checkExec) not yet delivered
    lastDone,       \* run: uri -> index of the run whose callback ran last (0: none)
    perl6Path,      \* run: the client copy's perl6Path
    configs         \* run: number of perl6 -v processes started so far

parserVars == <<msg, pc, text, diagnostics>>
runVars ==
    <<installed, perl6Path, documents, runs, files, sink, warnings, checks, lastDone, configs>>
vars ==
    <<variant, msg, pc, text, diagnostics, installed, perl6Path, documents, runs, files, sink,
      warnings, checks, lastDone, configs>>

(***************************************************************************)
(* Bounds                                                                  *)
(***************************************************************************)
\* an input text is a concatenation of 1..MaxSegs fragments
MaxSegs == 3
\* child processes (perl6 -c, perl6 -v) started in one behaviour
MaxProcs == 2

(***************************************************************************)
(* Characters and character classes of JavaScript regular expressions      *)
(***************************************************************************)
Digits == {"0", "1", "2", "3", "4", "5", "6", "7", "8", "9"}

DigitVal ==
    ("0" :> 0) @@ ("1" :> 1) @@ ("2" :> 2) @@ ("3" :> 3) @@ ("4" :> 4) @@
    ("5" :> 5) @@ ("6" :> 6) @@ ("7" :> 7) @@ ("8" :> 8) @@ ("9" :> 9)

\* \s
Space == {" ", "\t", "\n", "\r"}

\* line terminators, which `.` does not match
LineTerm == {"\n", "\r"}

\* "s": \s   "S": \S   "d": \d   ".": .
InClass(cls, c) ==
    CASE cls = "s" -> c \in Space
      [] cls = "S" -> c \notin Space
      [] cls = "d" -> c \in Digits
      [] cls = "." -> c \notin LineTerm

\* the index after the longest run of cls characters of s that starts at i
SkipWhile(cls, s, i) ==
    CHOOSE j \in i..(Len(s) + 1) :
        /\ j = Len(s) + 1 \/ ~InClass(cls, s[j])
        /\ \A x \in i..(j - 1) : InClass(cls, s[x])

\* the literal lit occurs in s at index i
HasAt(s, i, lit) ==
    /\ i + Len(lit) - 1 <= Len(s)
    /\ s[i] = lit[1]
    /\ SubSeq(s, i, i + Len(lit) - 1) = lit

\* length of what \r?\n matches in s at index i (0: no match)
NewlineLen(s, i) ==
    IF i <= Len(s) /\ s[i] = "\n" THEN 1
    ELSE IF i + 1 <= Len(s) /\ s[i] = "\r" /\ s[i + 1] = "\n" THEN 2
    ELSE 0

\* unary plus applied to a string of decimal digits
RECURSIVE ToNumber(_)
ToNumber(d) ==
    IF d = <<>> THEN 0
    ELSE 10 * ToNumber(SubSeq(d, 1, Len(d) - 1)) + DigitVal[d[Len(d)]]

Min(S) == CHOOSE x \in S : \A y \in S : x <= y

\* F applied to the value of x: `let v = x' of the source, x computed once
Let(x, F(_)) == CHOOSE r \in {F(v) : v \in {x}} : TRUE

\* the result of RegExp.exec that found nothing
NoMatch == [found |-> FALSE]

\* RegExp.exec without the g flag: the match at the least index that has one,
\* At(s, i) being the match that starts at i
Leftmost(s, At(_, _)) ==
    Let({At(s, i) : i \in 1..Len(s)}, LAMBDA ms :
        IF \A m \in ms : ~m.found THEN NoMatch
        ELSE CHOOSE m \in ms : m.found /\ \A q \in ms : q.found => m.index <= q.index)

(***************************************************************************)
(* String literals of the source                                           *)
(***************************************************************************)
LitCouldNotFind ==
    <<"C", "o", "u", "l", "d", " ", "n", "o", "t", " ", "f", "i", "n", "d", " ">>

LitAtLine ==
    <<" ", "a", "t", " ", "l", "i", "n", "e", " ">>

LitIn ==
    <<" ", "i", "n", ":">>

LitInNewline ==
    <<" ", "i", "n", ":", "\n">>

LitUndeclaredName ==
    <<"U", "n", "d", "e", "c", "l", "a", "r", "e", "d", " ", "n", "a", "m", "e">>

LitUndeclaredRoutine ==
    <<"U", "n", "d", "e", "c", "l", "a", "r", "e", "d", " ", "r", "o", "u", "t", "i", "n", "e">>

LitUsedAtLine ==
    <<" ", "u", "s", "e", "d", " ", "a", "t", " ", "l", "i", "n", "e", " ">>

LitAt ==
    <<"a", "t", " ">>

LitArrow ==
    <<"-", "-", "-", "-", "-", "-", ">", " ">>

LitSorry ==
    <<"=", "=", "=", "S", "O", "R", "R", "Y">>

LitName ==
    <<"n", "a", "m", "e">>

LitRoutine ==
    <<"r", "o", "u", "t", "i", "n", "e">>

LitIsNotDeclared ==
    <<" ", "i", "s", " ", "n", "o", "t", " ", "d", "e", "c", "l", "a", "r", "e", "d">>

(***************************************************************************)
(* The regular expressions.  Each ...At operator is the match the          *)
(* backtracking matcher finds when it starts at index i; exec returns the  *)
(* match of the least index that has one.  groups are g1, g2, g3; `all' is *)
(* the whole match (m[0]).                                                 *)
(***************************************************************************)

\* /Could not find (\S+) at line (\d+) in:[\r\n]([\s\S]+)/ started at i.
\* \S+ and \d+ are each followed by a space, so only their longest run can match.
ExecMissingLibAt(s, i) ==
    IF ~HasAt(s, i, LitCouldNotFind) THEN NoMatch
    ELSE Let(SkipWhile("S", s, i + Len(LitCouldNotFind)), LAMBDA b :
         IF b = i + Len(LitCouldNotFind) \/ ~HasAt(s, b, LitAtLine) THEN NoMatch
         ELSE Let(SkipWhile("d", s, b + Len(LitAtLine)), LAMBDA d :
              IF \/ d = b + Len(LitAtLine)
                 \/ ~HasAt(s, d, LitIn)
                 \/ d + Len(LitIn) + 1 > Len(s)
                 \/ s[d + Len(LitIn)] \notin LineTerm
              THEN NoMatch
              ELSE [found |-> TRUE, index |-> i,
                    g1 |-> SubSeq(s, i + Len(LitCouldNotFind), b - 1),
                    g2 |-> SubSeq(s, b + Len(LitAtLine), d - 1),
                    g3 |-> SubSeq(s, d + Len(LitIn) + 1, Len(s))]))

ExecMissingLib(s) == Leftmost(s, ExecMissingLibAt)

\* /Undeclared names?:\r?\n([\s\S]+)/ and /Undeclared routines?:\r?\n([\s\S]+)/
\* started at i; lit is the literal before the optional s.
ExecUndeclaredAt(lit, s, i) ==
    IF ~HasAt(s, i, lit) THEN NoMatch
    ELSE Let(IF i + Len(lit) <= Len(s) /\ s[i + Len(lit)] = "s"
             THEN i + Len(lit) + 1 ELSE i + Len(lit), LAMBDA b :
         IF b > Len(s) \/ s[b] # ":" \/ NewlineLen(s, b + 1) = 0 THEN NoMatch
         ELSE Let(b + 1 + NewlineLen(s, b + 1), LAMBDA r :
              IF r > Len(s) THEN NoMatch
              ELSE [found |-> TRUE, index |-> i, g1 |-> SubSeq(s, r, Len(s))]))

ExecUndeclared(lit, s) ==
    LET At(t, i) == ExecUndeclaredAt(lit, t, i)
    IN  Leftmost(s, At)

\* /^\s+(\S+) used at line (\d+)(.*)$/ on one line (no m flag: ^ and $ are the
\* ends of the string).
ExecEntry(line) ==
    Let(SkipWhile("s", line, 1), LAMBDA a :
    Let(SkipWhile("S", line, a), LAMBDA b :
        IF a = 1 \/ b = a \/ ~HasAt(line, b, LitUsedAtLine) THEN NoMatch
        ELSE Let(SkipWhile("d", line, b + Len(LitUsedAtLine)), LAMBDA d :
             IF \/ d = b + Len(LitUsedAtLine)
                \/ SkipWhile(".", line, d) # Len(line) + 1
             THEN NoMatch
             ELSE [found |-> TRUE, index |-> 1,
                   g1 |-> SubSeq(line, a, b - 1),
                   g2 |-> SubSeq(line, b + Len(LitUsedAtLine), d - 1),
                   g3 |-> SubSeq(line, d, Len(line))])))

\* the place k of the colon that `.*?:(\d+)\r?\n------> ' takes in the locator
\* line that starts at c and ends before eol: the first colon that is followed
\* by digits, a line break and the arrow (0: there is none)
LocatorColon(s, c, eol) ==
    Let({k \in c..(eol - 1) :
            /\ s[k] = ":"
            /\ Let(SkipWhile("d", s, k + 1), LAMBDA d :
                   /\ d > k + 1
                   /\ NewlineLen(s, d) > 0
                   /\ HasAt(s, d + NewlineLen(s, d), LitArrow))}, LAMBDA K :
        IF K = {} THEN 0 ELSE Min(K))

\* /(.*)\r?\nat .*?:(\d+)\r?\n------> (.*)/ started at i (the loop's regex is the
\* same without the groups); a is the end of the finding line.
ExecGenericAt(s, i) ==
    Let(SkipWhile(".", s, i), LAMBDA a :
        IF NewlineLen(s, a) = 0 \/ ~HasAt(s, a + NewlineLen(s, a), LitAt) THEN NoMatch
        ELSE Let(a + NewlineLen(s, a) + Len(LitAt), LAMBDA c :
             Let(LocatorColon(s, c, SkipWhile(".", s, c)), LAMBDA k :
                 IF k = 0 THEN NoMatch
                 ELSE Let(SkipWhile("d", s, k + 1), LAMBDA d :
                      Let(d + NewlineLen(s, d) + Len(LitArrow), LAMBDA e :
                      Let(SkipWhile(".", s, e), LAMBDA f :
                          [found |-> TRUE, index |-> i,
                           all |-> SubSeq(s, i, f - 1),
                           g1 |-> SubSeq(s, i, a - 1),
                           g2 |-> SubSeq(s, k + 1, d - 1),
                           g3 |-> SubSeq(s, e, f - 1)]))))))

ExecGeneric(s) == Leftmost(s, ExecGenericAt)

\* the first match of /===SORRY.*\r?\n/ in s as <<first index, last index>>
\* (<<0, 0>>: there is none)
BannerAt(s) ==
    Let({i \in 1..Len(s) :
            /\ HasAt(s, i, LitSorry)
            /\ NewlineLen(s, SkipWhile(".", s, i + Len(LitSorry))) > 0}, LAMBDA I :
        IF I = {} THEN <<0, 0>>
        ELSE Let(SkipWhile(".", s, Min(I) + Len(LitSorry)), LAMBDA a :
                 <<Min(I), a + NewlineLen(s, a) - 1>>))

\* msg.replace(/===SORRY.*\r?\n/, ""): the first match is removed
StripBanner(s) ==
    Let(BannerAt(s), LAMBDA b :
        IF b[1] = 0 THEN s
        ELSE SubSeq(s, 1, b[1] - 1) \o SubSeq(s, b[2] + 1, Len(s)))

\* lines.split(/\r?\n/g): every \n ends a separator, which is \r\n when a \r
\* of the same piece stands before it.  Piece k runs from after the (k-1)th
\* \n to before the kth separator.
Split(s) ==
    Let({i \in 1..Len(s) : s[i] = "\n"}, LAMBDA NL :
        LET Nth(k) == CHOOSE x \in NL : Cardinality({y \in NL : y < x}) = k - 1
            Start(k) == IF k = 1 THEN 1 ELSE Nth(k - 1) + 1
            End(k) ==
                IF k = Cardinality(NL) + 1 THEN Len(s)
                ELSE IF Nth(k) - 1 >= Start(k) /\ s[Nth(k) - 1] = "\r" THEN Nth(k) - 2
                     ELSE Nth(k) - 1
        IN  [k \in 1..(Cardinality(NL) + 1) |-> SubSeq(s, Start(k), End(k))])

\* text.slice(n) for n >= 0
Slice(s, n) == SubSeq(s, n + 1, Len(s))

(***************************************************************************)
(* The extractor                                                           *)
(***************************************************************************)

\* the Diagnostic object literal every branch pushes
Diagnostic(line_num, message) ==
    [severity |-> "Error",
     range |-> [start |-> [line |-> line_num, character |-> 0],
                end |-> [line |-> line_num, character |-> 1000]],
     message |-> message,
     source |-> "perl6"]

\* the diagnostic parse_undeclared pushes for the entry match m2
UndeclaredDiagnostic(type, m2) ==
    Diagnostic(ToNumber(m2.g2) - 1, type \o <<" ">> \o m2.g1 \o LitIsNotDeclared \o m2.g3)

\* the for loop of parse_undeclared: a diagnostic for every line before the
\* first line that is no entry (break)
parse_undeclared(type, lines, diags) ==
    Let([k \in DOMAIN Split(lines) |-> ExecEntry(Split(lines)[k])] \o <<NoMatch>>, LAMBDA ms :
    Let(Min({k \in DOMAIN ms : ~ms[k].found}), LAMBDA stop :
        diags \o [k \in 1..(stop - 1) |-> UndeclaredDiagnostic(type, ms[k])]))

\* parse_missing_libs with the line number taken as it is printed (one-based)
parse_missing_libs_OneBased(m, diags) ==
    Append(diags, Diagnostic(ToNumber(m.g2), LitCouldNotFind \o m.g1 \o LitInNewline \o m.g3))

parse_missing_libs(m, diags) ==
    Append(diags, Diagnostic(ToNumber(m.g2) - 1, LitCouldNotFind \o m.g1 \o LitInNewline \o m.g3))

\* m is never null here: the argument is a match of the same pattern
parse_generic_single(single, diags) ==
    Let(ExecGeneric(single), LAMBDA m :
        Append(diags, Diagnostic(ToNumber(m.g2) - 1, m.g1)))

\* the loop's slice taken up to the start of the match (text.slice(reea.index))
GenericsSliceAtIndex(txt, reea) == Slice(txt, reea.index - 1)

\* one iteration of the while loop of parse_generics: the new text, reea the
\* match found in txt
GenericsSliceText(txt, reea) == Slice(txt, Len(reea.all))

\* server copy: the while loop of parse_generics, from the loop's text on
RECURSIVE GenericsLoop(_, _)
GenericsLoop(txt, diags) ==
    Let(ExecGeneric(txt), LAMBDA reea :
        IF reea.found
        THEN Let(GenericsSliceText(txt, reea), LAMBDA t :
             Let(parse_generic_single(reea.all, diags), LAMBDA d :
                 GenericsLoop(t, d)))
        ELSE diags)

parse_generics(m, diags) ==
    Let(StripBanner(m), LAMBDA txt : GenericsLoop(txt, diags))

\* client copy: one match, or the whole text at line 0
parseGenerics(m, diags) ==
    Let(StripBanner(m), LAMBDA txt :
    Let(ExecGeneric(txt), LAMBDA mm :
        IF mm.found
        THEN Append(diags, Diagnostic(ToNumber(mm.g2) - 1, mm.g1))
        ELSE Append(diags, Diagnostic(0, txt))))

\* parseErrorMessage up to its call of the generic extractor:
\* [returned |-> whether it returned before that call, diags |-> the array then]
ErrorMessagePrefix(m, diags) ==
    Let(ExecMissingLib(m), LAMBDA lib :
        IF lib.found THEN [returned |-> TRUE, diags |-> parse_missing_libs(lib, diags)]
        ELSE Let(ExecUndeclared(LitUndeclaredName, m), LAMBDA names :
             Let(IF names.found THEN parse_undeclared(LitName, names.g1, diags) ELSE diags,
                 LAMBDA d1 :
             Let(ExecUndeclared(LitUndeclaredRoutine, m), LAMBDA routines :
                 IF routines.found
                 THEN [returned |-> TRUE,
                       diags |-> parse_undeclared(LitRoutine, routines.g1, d1)]
                 ELSE [returned |-> FALSE, diags |-> d1]))))

parseErrorMessage(v, m, diags) ==
    Let(ErrorMessagePrefix(m, diags), LAMBDA p :
        IF p.returned THEN p.diags
        ELSE IF v = "server" THEN parse_generics(m, p.diags)
             ELSE parseGenerics(m, p.diags))

(***************************************************************************)
(* Inputs of the extractor: stderr texts put together from fragments of    *)
(* rakudo's messages                                                       *)
(***************************************************************************)
FragBanner ==
    <<"=", "=", "=", "S", "O", "R", "R", "Y", "!", "=", "=", "=", "\n">>

FragBlockA ==
    <<"e", "\n", "a", "t", " ", "f", ":", "3", "\n", "-", "-", "-", "-", "-", "-", ">", " ", "x",
      "\n">>

FragBlockB ==
    <<"o", "o", "p", "s", "\r", "\n", "a", "t", " ", "g", ":", "1", "2", "\r", "\n", "-", "-", "-",
      "-", "-", "-", ">", " ", "y", "\r", "\n">>

FragJunk ==
    <<"b", "a", "d", " ", "t", "h", "i", "n", "g", "\n">>

FragMissing ==
    <<"C", "o", "u", "l", "d", " ", "n", "o", "t", " ", "f", "i", "n", "d", " ", "F", "o", "o",
      " ", "a", "t", " ", "l", "i", "n", "e", " ", "2", " ", "i", "n", ":", "\n">>

FragNames ==
    <<"U", "n", "d", "e", "c", "l", "a", "r", "e", "d", " ", "n", "a", "m", "e", "s", ":", "\n",
      " ", " ", "f", "o", "o", " ", "u", "s", "e", "d", " ", "a", "t", " ", "l", "i", "n", "e",
      " ", "5", "\n">>

FragRoutines ==
    <<"U", "n", "d", "e", "c", "l", "a", "r", "e", "d", " ", "r", "o", "u", "t", "i", "n", "e",
      ":", "\n">>

FragEntry ==
    <<" ", " ", "b", "a", "r", " ", "u", "s", "e", "d", " ", "a", "t", " ", "l", "i", "n", "e",
      " ", "0", " ", "(", "x", ")", "\n">>

Fragments ==
    {FragBanner, FragBlockA, FragBlockB, FragJunk, FragMissing, FragNames, FragRoutines,
     FragEntry}

\* the concatenations of exactly n fragments
RECURSIVE Concats(_)
Concats(n) ==
    IF n = 0 THEN {<<>>}
    ELSE {t \o f : t \in Concats(n - 1), f \in Fragments}

\* stderr is non-empty when parseErrorMessage is called
Inputs == UNION {Concats(n) : n \in 1..MaxSegs}

Variants == {"server", "client"}

(***************************************************************************)
(* The extractor as a state machine: parseErrorMessage, with the while     *)
(* loop of the server copy's parse_generics taken one iteration at a time  *)
(***************************************************************************)
ParseErrorMessage ==
    /\ pc = "start"
    /\ \E p \in {ErrorMessagePrefix(msg, diagnostics)} :
           IF p.returned
           THEN /\ diagnostics' = p.diags
                /\ pc' = "done"
                /\ text' = text
           ELSE IF variant = "client"
                THEN /\ diagnostics' = parseGenerics(msg, p.diags)
                     /\ pc' = "done"
                     /\ text' = text
                ELSE /\ diagnostics' = p.diags
                     /\ pc' = "generics"
                     /\ text' = StripBanner(msg)
    /\ UNCHANGED <<variant, msg, runVars>>

ParseGenericsIteration ==
    /\ pc = "generics"
    /\ \E reea \in {ExecGeneric(text)} :
           /\ reea.found
           /\ diagnostics' = parse_generic_single(reea.all, diagnostics)
           /\ text' = GenericsSliceText(text, reea)
    /\ UNCHANGED <<variant, msg, pc, runVars>>

ParseGenericsExit ==
    /\ pc = "generics"
    /\ ~ExecGeneric(text).found
    /\ pc' = "done"
    /\ UNCHANGED <<variant, msg, text, diagnostics, runVars>>

InitParse ==
    /\ variant \in Variants
    /\ msg \in Inputs
    /\ pc = "start"
    /\ text = <<>>
    /\ diagnostics = <<>>
    /\ installed = {}
    /\ perl6Path = "undefined"
    /\ documents = <<>>
    /\ runs = <<>>
    /\ files = {}
    /\ sink = <<>>
    /\ warnings = <<>>
    /\ checks = <<>>
    /\ lastDone = <<>>
    /\ configs = 0

NextParse ==
    \/ ParseErrorMessage
    \/ ParseGenericsIteration
    \/ ParseGenericsExit

Spec == InitParse /\ [][NextParse]_vars

\* the extractor is straight-line code: it always takes its next step
FairSpec == Spec /\ WF_vars(NextParse)

(***************************************************************************)
(* Validation runs                                                         *)
(***************************************************************************)
URIs == {"a.p6", "b.p6"}

\* what the buffer holds, by how perl6 -c ends on it
Contents == {"good", "bad"}

\* the values of the setting perl6.path
PathSettings == {"", "bin/perl6"}

\* what the shell can run: nothing, or the perl6 on the PATH (nothing is
\* installed at the configured path bin/perl6)
Installs == {{}, {"perl6"}}

NotOpen == "not open"

\* nothing was sent yet (a batch is <<diagnostics>>, so that one may be told
\* from the other)
NoBatch == <<>>

Batch(diags) == <<diags>>

ShellNotFound ==
    <<"s", "h", ":", " ", "p", "e", "r", "l", "6", ":", " ", "n", "o", "t", " ", "f", "o", "u",
      "n", "d", "\n">>

\* exec's callback arguments for a command line: error is set when the shell
\* cannot run the command (exit 127) or perl6 -c exits non-zero
ExecError(cmd, content) == cmd \notin installed \/ content = "bad"

ExecStderr(cmd, content) ==
    IF cmd \notin installed THEN ShellNotFound
    ELSE IF content = "bad" THEN FragBlockA
    ELSE <<>>

\* the command validateTextDocument runs: 'perl6' in the server copy,
\* perl6Path (undefined until the first configuration) in the client copy
CommandOf(v, path) == IF v = "server" THEN "perl6" ELSE path

\* validateTextDocument up to the call of exec: the new run
NewRun(uri, content, n, v, path) ==
    [uri |-> uri, content |-> content, tmpfile |-> n, cmd |-> CommandOf(v, path),
     status |-> "running", trace |-> <<>>, batch |-> NoBatch]

\* documents.all().forEach(validateTextDocument) over the uris us
RECURSIVE ValidateAll(_, _, _, _, _)
ValidateAll(us, docs, rs, v, path) ==
    IF us = {} THEN rs
    ELSE LET u == CHOOSE x \in us : TRUE
         IN  ValidateAll(us \ {u}, docs,
                 Append(rs, NewRun(u, docs[u], Len(rs) + 1, v, path)), v, path)

\* the callback with the temp file removed only in the branch that parses
\* stderr
CallbackBody_UnlinkOnError(v, run, error, stderr, st) ==
    LET failed == error /\ stderr # <<>>
        unlinked == IF failed
                    THEN [st EXCEPT !.files = @ \ {run.tmpfile},
                                    !.trace = Append(@, "unlinkSync")]
                    ELSE st
        diags == IF failed THEN parseErrorMessage(v, stderr, <<>>) ELSE <<>>
    IN  [unlinked EXCEPT !.sink = [@ EXCEPT ![run.uri] = Batch(diags)],
                         !.trace = Append(@, "sendDiagnostics"),
                         !.batch = Batch(diags)]

\* the body of exec's callback in validateTextDocument, on the state
\* st = [files, sink, trace, batch]
CallbackBody(v, run, error, stderr, st) ==
    LET unlinked == [st EXCEPT !.files = @ \ {run.tmpfile},
                               !.trace = Append(@, "unlinkSync")]
        diags == IF error /\ stderr # <<>>
                 THEN parseErrorMessage(v, stderr, <<>>)
                 ELSE <<>>
    IN  [unlinked EXCEPT !.sink = [@ EXCEPT ![run.uri] = Batch(diags)],
                         !.trace = Append(@, "sendDiagnostics"),
                         !.batch = Batch(diags)]

InitRun ==
    /\ variant \in Variants
    /\ msg = <<>>
    /\ pc = "idle"
    /\ text = <<>>
    /\ diagnostics = <<>>
    /\ installed \in Installs
    /\ perl6Path = "undefined"
    /\ documents = [u \in URIs |-> NotOpen]
    /\ runs = <<>>
    /\ files = {}
    /\ sink = [u \in URIs |-> NoBatch]
    /\ warnings = <<>>
    /\ checks = <<>>
    /\ lastDone = [u \in URIs |-> 0]
    /\ configs = 0

\* onDidChangeContent that first cancels the running runs of the document
DidChangeContent_Cancelling(uri, content) ==
    /\ Len(runs) + configs < MaxProcs
    /\ documents' = [documents EXCEPT ![uri] = content]
    /\ runs' = Append([i \in DOMAIN runs |->
                          IF runs[i].uri = uri /\ runs[i].status = "running"
                          THEN [runs[i] EXCEPT !.status = "cancelled"]
                          ELSE runs[i]],
                      NewRun(uri, content, Len(runs) + 1, variant, perl6Path))
    /\ files' = files \cup {Len(runs) + 1}
    /\ UNCHANGED <<variant, parserVars, installed, perl6Path, sink, warnings, checks,
                   lastDone, configs>>

\* documents.onDidChangeContent: validateTextDocument(change.document)
DidChangeContent(uri, content) ==
    /\ Len(runs) + configs < MaxProcs
    /\ documents' = [documents EXCEPT ![uri] = content]
    /\ runs' = Append(runs, NewRun(uri, content, Len(runs) + 1, variant, perl6Path))
    /\ files' = files \cup {Len(runs) + 1}
    /\ UNCHANGED <<variant, parserVars, installed, perl6Path, sink, warnings, checks,
                   lastDone, configs>>

\* connection.onDidChangeConfiguration: checkExec(path) in the client copy,
\* then every open document is validated again
DidChangeConfiguration(path) ==
    LET open == {u \in URIs : documents[u] # NotOpen}
        newPath == IF variant = "server" THEN perl6Path
                   ELSE IF path # "" THEN path ELSE "perl6"
        started == Cardinality(open) + IF variant = "client" THEN 1 ELSE 0
    IN  /\ Len(runs) + configs + started <= MaxProcs
        /\ configs' = IF variant = "client" THEN configs + 1 ELSE configs
        /\ perl6Path' = newPath
        /\ checks' = IF variant = "client" THEN Append(checks, newPath) ELSE checks
        /\ runs' = ValidateAll(open, documents, runs, variant, newPath)
        /\ files' = files \cup ((Len(runs) + 1)..(Len(runs) + Cardinality(open)))
        /\ UNCHANGED <<variant, parserVars, installed, documents, sink, warnings, lastDone>>

\* the callback of exec(perl6Path + ' -v') in checkExec
CheckExecCallback(k) ==
    /\ k \in DOMAIN checks
    /\ checks' = SubSeq(checks, 1, k - 1) \o SubSeq(checks, k + 1, Len(checks))
    /\ warnings' = IF checks[k] \notin installed THEN Append(warnings, ShellNotFound)
                   ELSE warnings
    /\ UNCHANGED <<variant, parserVars, installed, perl6Path, documents, runs, files, sink,
                   lastDone, configs>>

\* the callback of exec(... -c tmpfile) in validateTextDocument, for run i
ExecCallback(i) ==
    /\ i \in DOMAIN runs
    /\ runs[i].status = "running"
    /\ \E stderr \in {ExecStderr(runs[i].cmd, runs[i].content)} :
       \E st \in {CallbackBody(variant, runs[i], ExecError(runs[i].cmd, runs[i].content), stderr,
                       [files |-> files, sink |-> sink, trace |-> <<>>, batch |-> NoBatch])} :
           /\ files' = st.files
           /\ sink' = st.sink
           /\ runs' = [runs EXCEPT ![i] = [@ EXCEPT !.status = "done",
                                                    !.trace = st.trace,
                                                    !.batch = st.batch]]
    /\ lastDone' = [lastDone EXCEPT ![runs[i].uri] = i]
    /\ UNCHANGED <<variant, parserVars, installed, perl6Path, documents, warnings, checks,
                   configs>>

NextRun ==
    \/ \E u \in URIs, c \in Contents : DidChangeContent(u, c)
    \/ \E p \in PathSettings : DidChangeConfiguration(p)
    \/ \E k \in 1..MaxProcs : CheckExecCallback(k)
    \/ \E i \in 1..MaxProcs : ExecCallback(i)

\* a child process ends and node delivers its callback
RunSpec ==
    /\ InitRun
    /\ [][NextRun]_vars
    /\ \A i \in 1..MaxProcs : WF_vars(ExecCallback(i))
    /\ \A k \in 1..MaxProcs : WF_vars(CheckExecCallback(k))

(***************************************************************************)
(* Claims about the extractor (specifications Spec and FairSpec)           *)
(***************************************************************************)
Done == pc = "done"

\* the value of a string of decimal digits, by place value
DecimalValue(d) ==
    LET Pow10[n \in 0..Len(d)] == IF n = 0 THEN 1 ELSE 10 * Pow10[n - 1]
        Sum[n \in 0..Len(d)] ==
            IF n = 0 THEN 0 ELSE Sum[n - 1] + DigitVal[d[n]] * Pow10[Len(d) - n]
    IN  Sum[Len(d)]

AllIn(s, from, to, S) == \A x \in from..to : s[x] \in S

\* s reads ... "Could not find " M " at line " N " in:" <line break> P, with
\* M starting at i + 15, " at line " at j and " in:" at k
IsMissingLibAt(s, i, j, k) ==
    /\ HasAt(s, i, LitCouldNotFind)
    /\ j > i + Len(LitCouldNotFind)
    /\ HasAt(s, j, LitAtLine)
    /\ \A x \in (i + Len(LitCouldNotFind))..(j - 1) : s[x] \notin Space
    /\ k > j + Len(LitAtLine)
    /\ HasAt(s, k, LitIn)
    /\ AllIn(s, j + Len(LitAtLine), k - 1, Digits)
    /\ k + Len(LitIn) + 1 <= Len(s)
    /\ s[k + Len(LitIn)] \in LineTerm

\* the places where the literal lit occurs in s
Occurrences(s, lit) == {i \in 1..Len(s) : HasAt(s, i, lit)}

\* the positions <<i, j, k>> of the missing-library shapes of s
MissingLibShapes(s) ==
    {p \in Occurrences(s, LitCouldNotFind) \X Occurrences(s, LitAtLine) \X Occurrences(s, LitIn) :
        IsMissingLibAt(s, p[1], p[2], p[3])}

\* the diagnostic C5 states for the shape at p
MissingLibDiagnostic(s, p) ==
    LET M == SubSeq(s, p[1] + Len(LitCouldNotFind), p[2] - 1)
        N == SubSeq(s, p[2] + Len(LitAtLine), p[3] - 1)
        P == SubSeq(s, p[3] + Len(LitIn) + 1, Len(s))
    IN  [severity |-> "Error",
         range |-> [start |-> [line |-> DecimalValue(N) - 1, character |-> 0],
                    end |-> [line |-> DecimalValue(N) - 1, character |-> 1000]],
         message |-> LitCouldNotFind \o M \o LitIn \o <<"\n">> \o P,
         source |-> "perl6"]

\* C5: a text that holds "Could not find M at line N in:", a line break and a
\* non-empty P up to the end of the text gives exactly one diagnostic, at line
\* N - 1 with the message "Could not find M in:\n" P, whatever else the text
\* holds (M, N, P those of the first such place in the text).
C5_MissingLibExactlyOne ==
    (Done /\ MissingLibShapes(msg) # {}) =>
        LET first == CHOOSE p \in MissingLibShapes(msg) :
                         \A q \in MissingLibShapes(msg) : p[1] <= q[1]
        IN  diagnostics = <<MissingLibDiagnostic(msg, first)>>

\* C5's case: the shape together with an undeclared list and a generic block
C5_Witness ==
    /\ Done
    /\ MissingLibShapes(msg) # {}
    /\ ExecUndeclared(LitUndeclaredName, msg).found
    /\ ExecGeneric(msg).found
    /\ Len(diagnostics) = 1

\* C10: every iteration of the while loop of parse_generics cuts a non-empty
\* prefix, as long as the block matched, off text and pushes one diagnostic,
\* and the loop ends.
C10_LoopTerminates ==
    /\ [][(pc = "generics" /\ pc' = "generics") =>
              /\ Len(text') < Len(text)
              /\ Len(text) - Len(text') = Len(ExecGeneric(text).all)
              /\ text' = SubSeq(text, Len(text) - Len(text') + 1, Len(text))
              /\ Len(diagnostics') = Len(diagnostics) + 1]_vars
    /\ (pc = "generics") ~> Done

\* C10's case: the loop has cut the text once and finds another block
C10_Witness ==
    /\ pc = "generics"
    /\ Len(text) < Len(StripBanner(msg))
    /\ ExecGeneric(text).found

\* C1: a non-empty stderr text always gives at least one diagnostic.
C1_AtLeastOneDiagnostic == Done => Len(diagnostics) >= 1

NoShape(s) ==
    /\ ~ExecMissingLib(s).found
    /\ ~ExecUndeclared(LitUndeclaredName, s).found
    /\ ~ExecUndeclared(LitUndeclaredRoutine, s).found
    /\ ~ExecGeneric(s).found

\* C2: a text of none of the four shapes gives exactly one diagnostic, at line
\* 0, with the text less its first ===SORRY banner line as the message.
C2_FallbackWholeText ==
    (Done /\ NoShape(msg)) => diagnostics = <<Diagnostic(0, StripBanner(msg))>>

\* the entries "  <id> used at line N<advice>" that follow a header directly
ListedEntries(type, header, s) ==
    IF ExecUndeclared(header, s).found
    THEN parse_undeclared(type, ExecUndeclared(header, s).g1, <<>>)
    ELSE <<>>

\* C3: without the missing-library shape, a text with an undeclared-names
\* and/or an undeclared-routines list gives exactly the entries of the names
\* list followed by the entries of the routines list, and nothing else.
C3_UndeclaredListsOnly ==
    (/\ Done
     /\ ~ExecMissingLib(msg).found
     /\ \/ ExecUndeclared(LitUndeclaredName, msg).found
        \/ ExecUndeclared(LitUndeclaredRoutine, msg).found)
    => diagnostics = ListedEntries(LitName, LitUndeclaredName, msg)
                        \o ListedEntries(LitRoutine, LitUndeclaredRoutine, msg)

\* the generic blocks of s in the order of the text, each read once:
\* the search goes on after the end of the block found
RECURSIVE BlocksIn(_)
BlocksIn(s) ==
    IF ExecGeneric(s).found
    THEN <<Diagnostic(DecimalValue(ExecGeneric(s).g2) - 1, ExecGeneric(s).g1)>>
             \o BlocksIn(Slice(s, ExecGeneric(s).index - 1 + Len(ExecGeneric(s).all)))
    ELSE <<>>

\* C4: a text without the missing-library and undeclared shapes that holds
\* k >= 1 generic blocks gives exactly k diagnostics, one per block, in order,
\* each at its block's line N - 1 with its block's finding line as message.
C4_OneDiagnosticPerBlock ==
    (/\ Done
     /\ ~ExecMissingLib(msg).found
     /\ ~ExecUndeclared(LitUndeclaredName, msg).found
     /\ ~ExecUndeclared(LitUndeclaredRoutine, msg).found
     /\ ExecGeneric(msg).found)
    => diagnostics = BlocksIn(msg)

\* C6: every diagnostic has a line >= 0.
C6_LineNonNegative ==
    \A k \in DOMAIN diagnostics :
        /\ diagnostics[k].range.start.line >= 0
        /\ diagnostics[k].range.end.line >= 0

(***************************************************************************)
(* Claims about validation runs (specification RunSpec)                    *)
(***************************************************************************)
IsDone(i) == i \in DOMAIN runs /\ runs[i].status = "done"

\* the places of the effect e in the callback's trace t
PlacesOf(t, e) == {k \in DOMAIN t : t[k] = e}

\* C7: once the callback of a run has executed, the run's temp file is gone,
\* whatever the outcome of the invocation, and it was removed before the
\* batch was sent.
C7_TempFileRemoved ==
    \A i \in DOMAIN runs :
        runs[i].status = "done" =>
            /\ runs[i].tmpfile \notin files
            /\ PlacesOf(runs[i].trace, "unlinkSync") # {}
            /\ \A a \in PlacesOf(runs[i].trace, "unlinkSync"),
                  b \in PlacesOf(runs[i].trace, "sendDiagnostics") : a < b

\* C7's case: callbacks have executed after a compile failure and after a
\* clean compile, and both temp files are gone
C7_Witness ==
    /\ \E i \in DOMAIN runs :
           IsDone(i) /\ runs[i].cmd \in installed /\ runs[i].content = "bad"
    /\ \E i \in DOMAIN runs :
           IsDone(i) /\ runs[i].cmd \in installed /\ runs[i].content = "good"
    /\ files = {}

\* C8: a run whose invocation failed is abandoned: it publishes no diagnostic
\* made from the shell's error text, and a warning is shown.
C8_InvocationErrorNotPublished ==
    \A i \in DOMAIN runs :
        (runs[i].status = "done" /\ runs[i].cmd \notin installed) =>
            /\ runs[i].batch \in {NoBatch, Batch(<<>>)}
            /\ warnings # <<>>

\* C9: runs of one document that overlap proceed independently: each has its
\* own temp file, no event but its own callback touches a running run, each
\* run ends up having sent exactly one batch, and the sink holds for a uri the
\* batch of the run whose callback executed last.
C9_IndependentRuns ==
    /\ [](\A i, j \in DOMAIN runs : i # j => runs[i].tmpfile # runs[j].tmpfile)
    /\ [](\A i \in DOMAIN runs :
             Cardinality(PlacesOf(runs[i].trace, "sendDiagnostics"))
                 = IF runs[i].status = "done" THEN 1 ELSE 0)
    /\ [](\A u \in URIs : lastDone[u] # 0 => sink[u] = runs[lastDone[u]].batch)
    /\ [][\A i \in DOMAIN runs :
              /\ i \in DOMAIN runs'
              /\ runs'[i] # runs[i] => (runs[i].status = "running" /\ runs'[i].status = "done")
              /\ runs'[i].status = "done" =>
                     (runs'[i].batch # NoBatch /\ [runs'[i] EXCEPT !.status = "running",
                                                       !.trace = <<>>, !.batch = NoBatch]
                                                  = [runs[i] EXCEPT !.status = "running",
                                                       !.trace = <<>>, !.batch = NoBatch])]_vars
    /\ \A i \in 1..MaxProcs : [](i \in DOMAIN runs => <>IsDone(i))

\* C9's case: two runs of one document overlapped and the one started first
\* finished last, with a different batch
C9_Witness ==
    \E i, j \in DOMAIN runs :
        /\ i < j
        /\ runs[i].uri = runs[j].uri
        /\ IsDone(i) /\ IsDone(j)
        /\ lastDone[runs[i].uri] = i
        /\ runs[i].batch # runs[j].batch
====
